---- MODULE Spec2Model ----
(***************************************************************************)
(* waffle-app: the video ingestion and transcoding pipeline                *)
(* (internal/videos Handler.Upload / Handler.List / Handler.transcode),    *)
(* the metadata store it writes (internal/storage), and the session store  *)
(* it consults (internal/auth).                                            *)
(*                                                                         *)
(* Strings the code inspects character by character (file names, cookie    *)
(* values) are sequences of one-character strings; ids, user names and     *)
(* conversation ids, which the code only compares and concatenates, are    *)
(* atoms.  A video id generated by generateID is opaque and never repeats  *)
(* (128 random bits); the model names the ids 1, 2, ... in the order of    *)
(* generation.                                                             *)
(***************************************************************************)
EXTENDS Integers, Sequences, FiniteSets, TLC

VARIABLES
    sessions,       \* auth.Store.sessions: token -> username
    creating,       \* Store.Create calls between generateToken and the locked write
    tokens,         \* the tokens Store.Create has returned, each with the username it was given
    conversations,  \* rows of table conversations: id -> invite_code, name
    members,        \* rows of table members: <<conversation_id, username>>
    added,          \* the AddMember calls that returned nil: <<conversation_id, username>>
    videos,         \* rows of table videos: id -> row
    files,          \* regular files under VideosDir (paths)
    dirs,           \* per-conversation directories under VideosDir
    workers,        \* goroutines started by `go h.transcode`: id -> frame
    issued,         \* number of generated video ids that name a row or a file
    inflight,       \* ids whose Upload call dispatched its worker and has not returned yet
    now,            \* the database clock (CURRENT_TIMESTAMP, whole seconds)
    log,            \* slog.Error lines of the workers: <<video_id, message>>
    runs,           \* ffmpeg invocations made so far for each video id
    calls,          \* UpdateVideoStatus calls made so far by the worker of each video id
    trace           \* what the worker of each video id did so far: "ok" and "fail" for
                    \* the ffmpeg runs, "sleep" for the waits

vars == <<sessions, creating, tokens, conversations, members, added,
          videos, files, dirs, workers, issued, inflight, now, log, runs, calls, trace>>

\* the session store and the tables conversations and members, with the
\* record of the calls that wrote them
store == <<sessions, creating, tokens, conversations, members, added>>

(***************************************************************************)
(* Bounds of the model                                                     *)
(***************************************************************************)
\* accepted uploads (video ids generated) in one behaviour
MaxVideos == 1

\* rows of table videos, and the seconds the database clock runs through, in
\* one behaviour of the storage package on its own
MaxRows == 2
MaxNow == 1

\* workers running side by side in one behaviour of the workers on their own
MaxWorkers == 2

\* sessions and conversations created in one behaviour of the conversation
\* handlers
MaxSessions == 2
MaxConversations == 1

(***************************************************************************)
(* Program constants                                                       *)
(***************************************************************************)
maxRetries == 3

StatusBadRequest == 400
StatusUnauthorized == 401
StatusForbidden == 403
StatusInternalServerError == 500
StatusAccepted == 202
StatusOK == 200
StatusCreated == 201

\* the allow-list of lower-case extensions, dot included
allowedExtensions ==
    { <<".", "m", "p", "4">>, <<".", "m", "o", "v">>,
      <<".", "a", "v", "i">>, <<".", "m", "k", "v">> }

(***************************************************************************)
(* Strings as character sequences                                          *)
(***************************************************************************)
Upper == <<"A", "E", "I", "K", "M", "O", "P", "V", "X">>
Lower == <<"a", "e", "i", "k", "m", "o", "p", "v", "x">>

\* unicode.ToLower on one character
ToLowerChar(c) ==
    IF \E i \in 1..Len(Upper) : Upper[i] = c
    THEN Lower[CHOOSE i \in 1..Len(Upper) : Upper[i] = c]
    ELSE c

\* ToLower left out: the extension is compared as the client wrote it
ToLowerNone(s) == s

\* strings.ToLower
ToLower(s) == [i \in 1..Len(s) |-> ToLowerChar(s[i])]

\* os.IsPathSeparator
IsPathSeparator(c) == c = "/"

\* filepath.Ext: the suffix beginning at the final dot of the final path
\* element; empty when that element has no dot.  The scan runs backwards
\* from the end and stops at a separator.
RECURSIVE ExtFrom(_, _)
ExtFrom(path, i) ==
    IF i < 1 \/ IsPathSeparator(path[i]) THEN << >>
    ELSE IF path[i] = "." THEN SubSeq(path, i, Len(path))
    ELSE ExtFrom(path, i - 1)

Ext(path) == ExtFrom(path, Len(path))

\* strings.TrimSpace
RECURSIVE TrimLeft(_)
TrimLeft(s) ==
    IF s # << >> /\ Head(s) = " " THEN TrimLeft(Tail(s)) ELSE s

RECURSIVE TrimRight(_)
TrimRight(s) ==
    IF s # << >> /\ s[Len(s)] = " " THEN TrimRight(SubSeq(s, 1, Len(s) - 1)) ELSE s

TrimSpace(s) == TrimRight(TrimLeft(s))

(***************************************************************************)
(* The universe of the model                                               *)
(***************************************************************************)
T1 == <<"t", "1">>
T2 == <<"t", "2">>
TX == <<"t", "x">>

\* file names a client may declare
ClipMp4   == <<"c", "l", "i", "p", ".", "m", "p", "4">>
UpperMov  == <<"A", ".", "M", "O", "V">>
XAvi      == <<"x", ".", "a", "v", "i">>
MixedMkv  == <<"x", ".", "M", "k", "v">>
ExeMp4    == <<"a", ".", "e", "x", "e", ".", "M", "P", "4">>
TestExe   == <<"a", ".", "e", "x", "e">>
Mp4Exe    == <<"a", ".", "m", "p", "4", ".", "e", "x", "e">>
NoDot     == <<"m", "p", "4">>
DotOnly   == <<"a", ".", "m", "p", "4", ".">>
Mp4x      == <<"a", ".", "m", "p", "4", "x">>

FileNames ==
    { ClipMp4, UpperMov, XAvi, MixedMkv, ExeMp4,
      TestExe, Mp4Exe, NoDot, DotOnly, Mp4x }

\* one HTTP request: the session cookie (if any), whether the multipart body
\* parses within maxUploadSize, the conversation_id value ("" when absent),
\* and the file part (if any) with its declared file name
Req(hasCookie, cookie, parseOK, conv, hasFile, fname) ==
    [ hasCookie |-> hasCookie, cookie |-> cookie, parseOK |-> parseOK,
      conversationID |-> conv, hasFile |-> hasFile, filename |-> fname ]

Requests ==
    { Req(TRUE, T1, TRUE, "c1", TRUE, n) : n \in FileNames } \cup
    { Req(TRUE, T2, TRUE, "c2", TRUE, n) : n \in FileNames } \cup
    { Req(FALSE, << >>, TRUE, "c1", TRUE, ClipMp4),        \* no cookie
      Req(TRUE, <<" ">>, TRUE, "c1", TRUE, ClipMp4),       \* blank cookie
      Req(TRUE, TX, TRUE, "c1", TRUE, ClipMp4),            \* unknown token
      Req(TRUE, TX, FALSE, "", FALSE, << >>),
      Req(TRUE, T1, FALSE, "c1", TRUE, ClipMp4),           \* oversized or malformed
      Req(TRUE, T2, FALSE, "c1", TRUE, ClipMp4),
      Req(TRUE, T1, TRUE, "", TRUE, ClipMp4),              \* no conversation_id
      Req(TRUE, T2, TRUE, "", FALSE, << >>),
      Req(TRUE, T2, TRUE, "c1", TRUE, ClipMp4),            \* bob is not in c1
      Req(TRUE, T2, TRUE, "c1", TRUE, TestExe),
      Req(TRUE, T2, TRUE, "c1", FALSE, << >>),
      Req(TRUE, T1, TRUE, "c9", TRUE, ClipMp4),            \* no such conversation
      Req(TRUE, T1, TRUE, "c1", FALSE, << >>),             \* no file part
      Req(TRUE, <<" ", "t", "1", " ">>, TRUE, "c1", TRUE, ExeMp4),  \* padded token
      Req(TRUE, <<" ", "t", "2">>, TRUE, "c1", TRUE, XAvi),
      Req(TRUE, T1, TRUE, "c2", TRUE, UpperMov) }

\* what the environment does to one request: nothing, or the one call that
\* returns an error (every such error ends the handler, so a request meets at
\* most one), or a failing CreateVideo followed by a failing os.Remove of the
\* file just written (the one call made on an error path)
UploadFaults ==
    { "none", "IsMember", "generateID", "MkdirAll", "os.Create", "io.Copy",
      "CreateVideo", "CreateVideo+os.Remove" }

(***************************************************************************)
(* internal/auth                                                           *)
(***************************************************************************)
\* auth.FromRequest: the trimmed cookie value; not ok without a cookie or
\* with a blank one
FromRequest(r) ==
    IF ~r.hasCookie THEN [ok |-> FALSE, token |-> << >>]
    ELSE LET token == TrimSpace(r.cookie)
         IN  IF token = << >> THEN [ok |-> FALSE, token |-> << >>]
             ELSE [ok |-> TRUE, token |-> token]

\* Get answering ok for a token the store does not hold
GetUnchecked(token) ==
    [ ok |-> TRUE,
      Username |-> IF token \in DOMAIN sessions THEN sessions[token] ELSE "" ]

\* Store.Get
Get(token) ==
    IF token \in DOMAIN sessions
    THEN [ok |-> TRUE, Username |-> sessions[token]]
    ELSE [ok |-> FALSE, Username |-> ""]

\* Handler.requireSession: the session, or 401 written
requireSession(r) ==
    LET t == FromRequest(r)
    IN  IF ~t.ok THEN [ok |-> FALSE, Username |-> "", code |-> StatusUnauthorized]
        ELSE LET s == Get(t.token)
             IN  IF ~s.ok THEN [ok |-> FALSE, Username |-> "", code |-> StatusUnauthorized]
                 ELSE [ok |-> TRUE, Username |-> s.Username, code |-> 0]

(***************************************************************************)
(* internal/storage                                                        *)
(***************************************************************************)
\* IsMember with the conversation_id condition left out of the WHERE clause
IsMemberAnywhere(conversationID, username) ==
    Cardinality({m \in members : m[2] = username}) > 0

\* DB.IsMember: SELECT COUNT(*) ... > 0
IsMember(conversationID, username) ==
    Cardinality({m \in members : m = <<conversationID, username>>}) > 0

\* DB.CreateVideo on the table vs: INSERT with status 'pending'; the primary
\* key rejects an id already present.  The connection never enables
\* foreign_keys, so conversation_id is not checked.
CreateVideo(vs, id, conversationID, uploader, filename) ==
    IF id \in DOMAIN vs THEN [err |-> TRUE, videos |-> vs]
    ELSE [ err |-> FALSE,
           videos |-> [v \in DOMAIN vs \cup {id} |->
                         IF v = id
                         THEN [ conversationID |-> conversationID,
                                uploader |-> uploader,
                                filename |-> filename,
                                status |-> "pending",
                                uploadedAt |-> now ]
                         ELSE vs[v]] ]

\* UpdateVideoStatus with the WHERE clause left out
UpdateVideoStatusAll(vs, id, status) ==
    [ err |-> FALSE,
      videos |-> [v \in DOMAIN vs |-> [vs[v] EXCEPT !.status = status]] ]

\* DB.UpdateVideoStatus on the table vs: UPDATE ... WHERE id = ?; an id with
\* no row updates nothing and is no error
UpdateVideoStatus(vs, id, status) ==
    [ err |-> FALSE,
      videos |-> [v \in DOMAIN vs |->
                    IF v = id THEN [vs[v] EXCEPT !.status = status] ELSE vs[v]] ]

\* DB.CreateConversation on the table cs: INSERT; id is the primary key and
\* invite_code is UNIQUE
CreateConversation(cs, id, inviteCode, name) ==
    IF id \in DOMAIN cs \/ \E c \in DOMAIN cs : cs[c].inviteCode = inviteCode
    THEN [err |-> TRUE, conversations |-> cs]
    ELSE [ err |-> FALSE,
           conversations |-> [c \in DOMAIN cs \cup {id} |->
                                IF c = id THEN [inviteCode |-> inviteCode, name |-> name]
                                ELSE cs[c]] ]

\* GetConversationByInviteCode answering with some row when none matches
GetConversationByInviteCodeAny(inviteCode) ==
    [ found |-> TRUE,
      ID |-> IF \E c \in DOMAIN conversations : conversations[c].inviteCode = inviteCode
             THEN CHOOSE c \in DOMAIN conversations :
                      conversations[c].inviteCode = inviteCode
             ELSE CHOOSE c \in DOMAIN conversations : TRUE ]

\* DB.GetConversationByInviteCode: the row, or nil for sql.ErrNoRows
GetConversationByInviteCode(inviteCode) ==
    IF \E c \in DOMAIN conversations : conversations[c].inviteCode = inviteCode
    THEN [ found |-> TRUE,
           ID |-> CHOOSE c \in DOMAIN conversations :
                      conversations[c].inviteCode = inviteCode ]
    ELSE [found |-> FALSE, ID |-> ""]

\* AddMember with the two values bound in the wrong order
AddMemberSwapped(ms, conversationID, username) ==
    [err |-> FALSE, members |-> ms \cup {<<username, conversationID>>}]

\* AddMember as a plain INSERT: the primary key refuses a row already there
AddMemberStrict(ms, conversationID, username) ==
    IF <<conversationID, username>> \in ms THEN [err |-> TRUE, members |-> ms]
    ELSE [err |-> FALSE, members |-> ms \cup {<<conversationID, username>>}]

\* DB.AddMember on the table ms: INSERT OR IGNORE
AddMember(ms, conversationID, username) ==
    [err |-> FALSE, members |-> ms \cup {<<conversationID, username>>}]

(***************************************************************************)
(* internal/videos: paths                                                  *)
(***************************************************************************)
\* filepath.Join(h.VideosDir, conversationID)
ConvDir(conversationID) == conversationID

\* filepath.Join(convDir, "original_"+videoID+ext)
OriginalPath(convDir, videoID, ext) == <<convDir, "original_", videoID, ext>>

\* filepath.Join(convDir, videoID+".mp4")
OutputPath(convDir, videoID) == <<convDir, "", videoID, <<".", "m", "p", "4">>>>

(***************************************************************************)
(* internal/videos: Handler.Upload                                         *)
(***************************************************************************)
\* the frame of a goroutine running Handler.transcode(videoID, inputPath,
\* outputPath) at its first statement
NewWorker(inputPath, outputPath) ==
    [ pc |-> "ffmpeg", attempt |-> 1, inputPath |-> inputPath,
      outputPath |-> outputPath, lastErr |-> FALSE ]

\* a handler result that wrote `code` and changed nothing
Reject(code) ==
    [ code |-> code, id |-> 0, videos |-> videos, files |-> files, dirs |-> dirs,
      workers |-> workers, issued |-> issued, inflight |-> inflight ]

\* saveFile with the errors of os.Create and io.Copy not returned
saveFileNoError(fs, destPath, f) ==
    IF f = "os.Create" THEN [err |-> FALSE, files |-> fs]
    ELSE [err |-> FALSE, files |-> fs \cup {destPath}]

\* saveFile(src, destPath) under the environment fault f: os.Create fails and
\* leaves nothing, or io.Copy fails after os.Create made the file, or the
\* whole stream is written
saveFile(fs, destPath, f) ==
    IF f = "os.Create" THEN [err |-> TRUE, files |-> fs]
    ELSE IF f = "io.Copy" THEN [err |-> TRUE, files |-> fs \cup {destPath}]
    ELSE [err |-> FALSE, files |-> fs \cup {destPath}]

\* ParseMultipartForm with its error not looked at
ParseMultipartFormUnchecked(r) == [err |-> FALSE]

\* r.ParseMultipartForm(maxUploadSize) after http.MaxBytesReader: an error for
\* a body that is malformed or longer than maxUploadSize
ParseMultipartForm(r) == [err |-> ~r.parseOK]

\* os.Remove with the call left out
osRemoveNothing(fs, path, err) == fs

\* os.Remove(path): the file is gone, or the call fails and it stays
osRemove(fs, path, err) == IF err THEN fs ELSE fs \ {path}

\* Upload with the file part and its extension checked before the membership
UploadResultFileFirst(r, f) ==
    LET session == requireSession(r) IN
    IF ~session.ok THEN Reject(session.code)
    ELSE IF ParseMultipartForm(r).err THEN Reject(StatusBadRequest)
    ELSE IF r.conversationID = "" THEN Reject(StatusBadRequest)
    ELSE IF ~r.hasFile THEN Reject(StatusBadRequest)
    ELSE
    LET ext == ToLower(Ext(r.filename)) IN
    IF ext \notin allowedExtensions THEN Reject(StatusBadRequest)
    ELSE IF f = "IsMember" THEN Reject(StatusInternalServerError)
    ELSE IF ~IsMember(r.conversationID, session.Username) THEN Reject(StatusForbidden)
    ELSE IF f = "generateID" THEN Reject(StatusInternalServerError)
    ELSE
    LET videoID == issued + 1
        convDir == ConvDir(r.conversationID)
    IN
    IF f = "MkdirAll" THEN Reject(StatusInternalServerError)
    ELSE
    LET originalPath == OriginalPath(convDir, videoID, ext)
        outputPath == OutputPath(convDir, videoID)
        saved == saveFile(files, originalPath, f)
        made == [Reject(StatusInternalServerError) EXCEPT !.dirs = dirs \cup {convDir}]
    IN
    IF saved.err
    THEN [made EXCEPT !.files = saved.files,
                      !.issued = IF saved.files = files THEN issued ELSE videoID]
    ELSE
    LET created ==
            IF f \in {"CreateVideo", "CreateVideo+os.Remove"}
            THEN [err |-> TRUE, videos |-> videos]
            ELSE CreateVideo(videos, videoID, r.conversationID, session.Username,
                             outputPath)
        removed == osRemove(saved.files, originalPath, f = "CreateVideo+os.Remove")
    IN
    IF created.err
    THEN [made EXCEPT !.files = removed,
                      !.issued = IF removed = files THEN issued ELSE videoID]
    ELSE [ code |-> 0, id |-> videoID,
           videos |-> created.videos,
           files |-> saved.files,
           dirs |-> dirs \cup {convDir},
           workers |-> [w \in DOMAIN workers \cup {videoID} |->
                          IF w = videoID THEN NewWorker(originalPath, outputPath)
                          ELSE workers[w]],
           issued |-> videoID,
           inflight |-> inflight \cup {videoID} ]

\* Handler.Upload from its first statement to `go h.transcode(...)`, or to the
\* error response that ends it.  code 0: the worker is dispatched and the 202
\* is not written yet.
UploadResult(r, f) ==
    LET session == requireSession(r) IN
    IF ~session.ok THEN Reject(session.code)
    ELSE IF ParseMultipartForm(r).err THEN Reject(StatusBadRequest)
    ELSE IF r.conversationID = "" THEN Reject(StatusBadRequest)
    ELSE IF f = "IsMember" THEN Reject(StatusInternalServerError)
    ELSE IF ~IsMember(r.conversationID, session.Username) THEN Reject(StatusForbidden)
    ELSE IF ~r.hasFile THEN Reject(StatusBadRequest)
    ELSE
    LET ext == ToLower(Ext(r.filename)) IN
    IF ext \notin allowedExtensions THEN Reject(StatusBadRequest)
    ELSE IF f = "generateID" THEN Reject(StatusInternalServerError)
    ELSE
    LET videoID == issued + 1
        convDir == ConvDir(r.conversationID)
    IN
    IF f = "MkdirAll" THEN Reject(StatusInternalServerError)
    ELSE
    LET originalPath == OriginalPath(convDir, videoID, ext)
        outputPath == OutputPath(convDir, videoID)
        saved == saveFile(files, originalPath, f)
        made == [Reject(StatusInternalServerError) EXCEPT !.dirs = dirs \cup {convDir}]
    IN
    IF saved.err
    THEN [made EXCEPT !.files = saved.files,
                      !.issued = IF saved.files = files THEN issued ELSE videoID]
    ELSE
    LET created ==
            IF f \in {"CreateVideo", "CreateVideo+os.Remove"}
            THEN [err |-> TRUE, videos |-> videos]
            ELSE CreateVideo(videos, videoID, r.conversationID, session.Username,
                             outputPath)
        removed == osRemove(saved.files, originalPath, f = "CreateVideo+os.Remove")
    IN
    IF created.err
    THEN [made EXCEPT !.files = removed,
                      !.issued = IF removed = files THEN issued ELSE videoID]
    ELSE [ code |-> 0, id |-> videoID,
           videos |-> created.videos,
           files |-> saved.files,
           dirs |-> dirs \cup {convDir},
           workers |-> [w \in DOMAIN workers \cup {videoID} |->
                          IF w = videoID THEN NewWorker(originalPath, outputPath)
                          ELSE workers[w]],
           issued |-> videoID,
           inflight |-> inflight \cup {videoID} ]

\* one Upload call, up to its error response or to the dispatch of its worker
Upload(r, f) ==
    /\ LET res == UploadResult(r, f) IN
       /\ res.issued <= MaxVideos
       /\ videos' = res.videos
       /\ files' = res.files
       /\ dirs' = res.dirs
       /\ workers' = res.workers
       /\ issued' = res.issued
       /\ inflight' = res.inflight
       /\ runs' = [w \in DOMAIN res.workers |-> IF w \in DOMAIN runs THEN runs[w] ELSE 0]
       /\ calls' = [w \in DOMAIN res.workers |-> IF w \in DOMAIN calls THEN calls[w] ELSE 0]
       /\ trace' = [w \in DOMAIN res.workers |-> IF w \in DOMAIN trace THEN trace[w] ELSE << >>]
    /\ UNCHANGED <<store, now, log>>

\* the rest of an accepted Upload call: the 202 {video_id, status: "pending"}
UploadReturn(id) ==
    /\ id \in inflight
    /\ inflight' = inflight \ {id}
    /\ UNCHANGED <<store, videos, files, dirs, workers, issued, now, log, runs, calls, trace>>

(***************************************************************************)
(* internal/videos: Handler.List                                           *)
(***************************************************************************)
ListFaults == {"none", "IsMember", "GetVideosByConversation"}

\* the WHERE clause left out: every row matches
MatchingAll(conversationID) == DOMAIN videos

\* the ids of the rows WHERE conversation_id = ?
Matching(conversationID) ==
    {id \in DOMAIN videos : videos[id].conversationID = conversationID}

\* ORDER BY uploaded_at without DESC: oldest first
OrdersAscending(conversationID) ==
    LET ids == Matching(conversationID)
        n == Cardinality(ids)
    IN  { o \in [1..n -> ids] :
            /\ \A i, j \in 1..n : i # j => o[i] # o[j]
            /\ \A i, j \in 1..n :
                 i < j => videos[o[i]].uploadedAt <= videos[o[j]].uploadedAt }

\* the orders ORDER BY uploaded_at DESC allows for those rows (rows of equal
\* uploaded_at come in an order SQL leaves open)
Orders(conversationID) ==
    LET ids == Matching(conversationID)
        n == Cardinality(ids)
    IN  { o \in [1..n -> ids] :
            /\ \A i, j \in 1..n : i # j => o[i] # o[j]
            /\ \A i, j \in 1..n :
                 i < j => videos[o[i]].uploadedAt >= videos[o[j]].uploadedAt }

\* DB.GetVideosByConversation, the rows in the order o
GetVideosByConversation(conversationID, o) ==
    [ i \in 1..Len(o) |->
        [ ID |-> o[i],
          ConversationID |-> videos[o[i]].conversationID,
          Uploader |-> videos[o[i]].uploader,
          Filename |-> videos[o[i]].filename,
          Status |-> videos[o[i]].status,
          UploadedAt |-> videos[o[i]].uploadedAt ] ]

\* Handler.List: the status code and the JSON body
ListResult(r, f, o) ==
    LET session == requireSession(r) IN
    IF ~session.ok THEN [code |-> session.code, body |-> << >>]
    ELSE IF r.conversationID = "" THEN [code |-> StatusBadRequest, body |-> << >>]
    ELSE IF f = "IsMember" THEN [code |-> StatusInternalServerError, body |-> << >>]
    ELSE IF ~IsMember(r.conversationID, session.Username)
    THEN [code |-> StatusForbidden, body |-> << >>]
    ELSE IF f = "GetVideosByConversation"
    THEN [code |-> StatusInternalServerError, body |-> << >>]
    ELSE LET vs == GetVideosByConversation(r.conversationID, o)
         IN  [ code |-> StatusOK,
               body |-> [ i \in 1..Len(vs) |->
                            [ id |-> vs[i].ID, uploader |-> vs[i].Uploader,
                              status |-> vs[i].Status,
                              uploaded_at |-> vs[i].UploadedAt ] ] ]

\* one List call: it writes its response and assigns nothing
\* List marking as ready the pending rows whose canonical file is on disk
ListRepairing(r, f) ==
    /\ \E o \in Orders(r.conversationID) : ListResult(r, f, o).code # 0
    /\ videos' = [ id \in DOMAIN videos |->
                     IF /\ videos[id].status = "pending"
                        /\ id \in DOMAIN workers
                        /\ workers[id].outputPath \in files
                     THEN [videos[id] EXCEPT !.status = "ready"]
                     ELSE videos[id] ]
    /\ UNCHANGED <<store, files, dirs, workers, issued, inflight, now, log,
                   runs, calls, trace>>

List(r, f) ==
    /\ \E o \in Orders(r.conversationID) : ListResult(r, f, o).code # 0
    /\ UNCHANGED vars

(***************************************************************************)
(* internal/videos: Handler.transcode, one goroutine per accepted upload   *)
(***************************************************************************)
Running(id, pc) == id \in DOMAIN workers /\ workers[id].pc = pc

\* Attempt with the retained original removed when the last attempt fails
AttemptDropOriginal(id, ok, partial) ==
    /\ Running(id, "ffmpeg")
    /\ LET w == workers[id]
           exhausted == ~ok /\ w.attempt >= maxRetries
       IN  /\ ok => w.inputPath \in files
           /\ files' = (IF ok \/ partial THEN files \cup {w.outputPath} ELSE files)
                          \ (IF exhausted THEN {w.inputPath} ELSE {})
           /\ workers' = [workers EXCEPT
                 ![id].lastErr = w.lastErr \/ ~ok,
                 ![id].pc = IF ok THEN "remove"
                            ELSE IF exhausted THEN "setError" ELSE "sleep",
                 ![id].attempt = IF exhausted THEN w.attempt + 1 ELSE w.attempt]
    /\ runs' = [runs EXCEPT ![id] = runs[id] + 1]
    /\ trace' = [trace EXCEPT ![id] = Append(trace[id], IF ok THEN "ok" ELSE "fail")]
    /\ UNCHANGED <<store, videos, dirs, issued, inflight, now, log, calls>>

\* Attempt with the loop bound off by one (attempt < maxRetries)
AttemptOffByOne(id, ok, partial) ==
    /\ Running(id, "ffmpeg")
    /\ LET w == workers[id]
           exhausted == ~ok /\ w.attempt >= maxRetries - 1
       IN  /\ ok => w.inputPath \in files
           /\ files' = IF ok \/ partial THEN files \cup {w.outputPath} ELSE files
           /\ workers' = [workers EXCEPT
                 ![id].lastErr = w.lastErr \/ ~ok,
                 ![id].pc = IF ok THEN "remove"
                            ELSE IF exhausted THEN "setError" ELSE "sleep",
                 ![id].attempt = IF exhausted THEN w.attempt + 1 ELSE w.attempt]
    /\ runs' = [runs EXCEPT ![id] = runs[id] + 1]
    /\ trace' = [trace EXCEPT ![id] = Append(trace[id], IF ok THEN "ok" ELSE "fail")]
    /\ UNCHANGED <<store, videos, dirs, issued, inflight, now, log, calls>>

\* Attempt with the wait taken after every failed attempt, the last included
AttemptSleepsAlways(id, ok, partial) ==
    /\ Running(id, "ffmpeg")
    /\ LET w == workers[id] IN
       IF ok
       THEN /\ w.inputPath \in files
            /\ files' = files \cup {w.outputPath}
            /\ workers' = [workers EXCEPT ![id].pc = "remove"]
       ELSE /\ files' = IF partial THEN files \cup {w.outputPath} ELSE files
            /\ workers' = [workers EXCEPT
                  ![id].lastErr = TRUE,
                  ![id].pc = IF w.attempt <= maxRetries THEN "sleep" ELSE "setError"]
    /\ runs' = [runs EXCEPT ![id] = runs[id] + 1]
    /\ trace' = [trace EXCEPT ![id] = Append(trace[id], IF ok THEN "ok" ELSE "fail")]
    /\ UNCHANGED <<store, videos, dirs, issued, inflight, now, log, calls>>

\* Attempt with the status written as soon as ffmpeg reports success
AttemptSetsReady(id, ok, partial) ==
    /\ Running(id, "ffmpeg")
    /\ LET w == workers[id] IN
       IF ok
       THEN /\ w.inputPath \in files
            /\ files' = files \cup {w.outputPath}
            /\ workers' = [workers EXCEPT ![id].pc = "remove"]
            /\ videos' = UpdateVideoStatus(videos, id, "ready").videos
       ELSE /\ files' = IF partial THEN files \cup {w.outputPath} ELSE files
            /\ workers' = [workers EXCEPT
                  ![id].lastErr = TRUE,
                  ![id].pc = IF w.attempt < maxRetries THEN "sleep" ELSE "setError",
                  ![id].attempt = IF w.attempt < maxRetries THEN w.attempt
                                  ELSE w.attempt + 1]
            /\ videos' = videos
    /\ runs' = [runs EXCEPT ![id] = runs[id] + 1]
    /\ trace' = [trace EXCEPT ![id] = Append(trace[id], IF ok THEN "ok" ELSE "fail")]
    /\ UNCHANGED <<store, dirs, issued, inflight, now, log, calls>>

\* cmd.CombinedOutput() of one ffmpeg attempt, and the branch on its error.
\* ffmpeg exits 0 only after writing the output (overwriting, -y), and needs
\* its input; a failing run leaves the output path as it was or leaves a
\* partial file there.
Attempt(id, ok, partial) ==
    /\ Running(id, "ffmpeg")
    /\ LET w == workers[id] IN
       IF ok
       THEN /\ w.inputPath \in files
            /\ files' = files \cup {w.outputPath}
            /\ workers' = [workers EXCEPT ![id].pc = "remove"]
       ELSE /\ files' = IF partial THEN files \cup {w.outputPath} ELSE files
            /\ workers' = [workers EXCEPT
                  ![id].lastErr = TRUE,
                  ![id].pc = IF w.attempt < maxRetries THEN "sleep" ELSE "setError",
                  ![id].attempt = IF w.attempt < maxRetries THEN w.attempt
                                  ELSE w.attempt + 1]
    /\ runs' = [runs EXCEPT ![id] = runs[id] + 1]
    /\ trace' = [trace EXCEPT ![id] = Append(trace[id], IF ok THEN "ok" ELSE "fail")]
    /\ UNCHANGED <<store, videos, dirs, issued, inflight, now, log, calls>>

\* Sleep with the loop counter left as it was
SleepNoIncrement(id) ==
    /\ Running(id, "sleep")
    /\ workers' = [workers EXCEPT ![id].pc = "ffmpeg"]
    /\ trace' = [trace EXCEPT ![id] = Append(trace[id], "sleep")]
    /\ UNCHANGED <<store, videos, files, dirs, issued, inflight, now, log, runs, calls>>

\* time.Sleep(retryDelay), then attempt++
Sleep(id) ==
    /\ Running(id, "sleep")
    /\ workers' = [workers EXCEPT ![id].pc = "ffmpeg",
                                  ![id].attempt = workers[id].attempt + 1]
    /\ trace' = [trace EXCEPT ![id] = Append(trace[id], "sleep")]
    /\ UNCHANGED <<store, videos, files, dirs, issued, inflight, now, log, runs, calls>>

\* Remove with a failed deletion failing the run
RemoveFailsRun(id, err) ==
    /\ Running(id, "remove")
    /\ files' = IF err THEN files ELSE files \ {workers[id].inputPath}
    /\ workers' = [workers EXCEPT ![id].pc = IF err THEN "setError" ELSE "setReady"]
    /\ log' = IF err THEN log \cup {<<id, "failed to delete original file">>} ELSE log
    /\ UNCHANGED <<store, videos, dirs, issued, inflight, now, runs, calls, trace>>

\* Remove with the os.Remove call left out
RemoveNothing(id, err) ==
    /\ Running(id, "remove")
    /\ workers' = [workers EXCEPT ![id].pc = "setReady"]
    /\ UNCHANGED <<store, videos, files, dirs, issued, inflight, now, log, runs, calls, trace>>

\* os.Remove(inputPath) after a successful attempt; its error is only logged
Remove(id, err) ==
    /\ Running(id, "remove")
    /\ files' = IF err THEN files ELSE files \ {workers[id].inputPath}
    /\ workers' = [workers EXCEPT ![id].pc = "setReady"]
    /\ log' = IF err THEN log \cup {<<id, "failed to delete original file">>} ELSE log
    /\ UNCHANGED <<store, videos, dirs, issued, inflight, now, runs, calls, trace>>

\* h.DB.UpdateVideoStatus(videoID, status), whose error (dbErr: the database
\* refused the write) is only logged, and the end of the goroutine at `exit`
SetStatus(id, status, dbErr, exit) ==
    /\ LET upd == IF dbErr THEN [err |-> TRUE, videos |-> videos]
                  ELSE UpdateVideoStatus(videos, id, status)
       IN  /\ videos' = upd.videos
           /\ log' = IF upd.err
                      THEN log \cup {<<id, "failed to update video status">>}
                      ELSE log
    /\ workers' = [workers EXCEPT ![id].pc = exit]
    /\ calls' = [calls EXCEPT ![id] = calls[id] + 1]
    /\ UNCHANGED <<store, files, dirs, issued, inflight, now, runs, trace>>

\* SetReady undoing the conversion when the status write fails
SetReadyRollback(id, dbErr) ==
    /\ Running(id, "setReady")
    /\ IF dbErr
       THEN /\ files' = files \ {workers[id].outputPath}
            /\ log' = log \cup {<<id, "failed to update video status">>}
            /\ workers' = [workers EXCEPT ![id].pc = "return"]
            /\ calls' = [calls EXCEPT ![id] = calls[id] + 1]
            /\ UNCHANGED <<store, videos, dirs, issued, inflight, now, runs, trace>>
       ELSE SetStatus(id, "ready", FALSE, "return")

\* SetReady without the `return`: control falls out of the loop to the error path
SetReadyNoReturn(id, dbErr) ==
    Running(id, "setReady") /\ SetStatus(id, "ready", dbErr, "setError")

\* the status write after a successful attempt, and the `return` that follows
SetReady(id, dbErr) ==
    Running(id, "setReady") /\ SetStatus(id, "ready", dbErr, "return")

\* SetError with the UpdateVideoStatus call left out
SetErrorSkipped(id, dbErr) ==
    /\ Running(id, "setError")
    /\ workers' = [workers EXCEPT ![id].pc = "end"]
    /\ UNCHANGED <<store, videos, files, dirs, issued, inflight, now, log, runs, calls, trace>>

\* the status write after the loop ran out of attempts, and the function's end
SetError(id, dbErr) ==
    Running(id, "setError") /\ SetStatus(id, "error", dbErr, "end")

transcode(id) ==
    \/ \E ok \in BOOLEAN, partial \in BOOLEAN : Attempt(id, ok, partial)
    \/ Sleep(id)
    \/ \E err \in BOOLEAN : Remove(id, err)
    \/ \E err \in BOOLEAN : SetReady(id, err)
    \/ \E err \in BOOLEAN : SetError(id, err)

(***************************************************************************)
(* internal/auth: Store.Create                                             *)
(***************************************************************************)
\* the n-th token generateToken returns (256 random bits: never one returned
\* before)
Token(n) == <<"t", ToString(n)>>

generateToken == Token(Cardinality(DOMAIN sessions) + Cardinality(creating) + 1)

\* the locked write keeping one session for each username
StoreCreateEvicting(c) ==
    /\ c \in creating
    /\ sessions' = [t \in {u \in DOMAIN sessions : sessions[u] # c.username}
                              \cup {c.token} |->
                       IF t = c.token THEN c.username ELSE sessions[t]]
    /\ tokens' = [t \in DOMAIN tokens \cup {c.token} |->
                     IF t = c.token THEN c.username ELSE tokens[t]]
    /\ creating' = creating \ {c}
    /\ UNCHANGED <<conversations, members, added, videos, files, dirs, workers,
                   issued, inflight, now, log, runs, calls, trace>>

\* Store.Create from s.mu.Lock() on: s.sessions[token] = entry, the unlock and
\* the return of the token (in Join followed by SetCookie and the 200)
StoreCreate(c) ==
    /\ c \in creating
    /\ sessions' = [t \in DOMAIN sessions \cup {c.token} |->
                       IF t = c.token THEN c.username ELSE sessions[t]]
    /\ tokens' = [t \in DOMAIN tokens \cup {c.token} |->
                     IF t = c.token THEN c.username ELSE tokens[t]]
    /\ creating' = creating \ {c}
    /\ UNCHANGED <<conversations, members, added, videos, files, dirs, workers,
                   issued, inflight, now, log, runs, calls, trace>>

(***************************************************************************)
(* internal/conversations: Handler.Join and Handler.Create                 *)
(***************************************************************************)
Usernames == {"alice", "bob", "carol"}

\* the JSON body of a Join request: whether it decodes, and its two fields
\* ("" for a field left out)
JoinBody(decodeOK, inviteCode, username) ==
    [decodeOK |-> decodeOK, InviteCode |-> inviteCode, Username |-> username]

JoinBodies ==
    { JoinBody(FALSE, "", "") } \cup
    { JoinBody(TRUE, c, u) : c \in {"", "i1", "i2", "i3", "zz"},
                             u \in Usernames \cup {""} }

JoinFaults == {"none", "GetConversationByInviteCode", "AddMember", "generateToken"}

\* a Join result that wrote `code` and changed nothing
JoinReject(code) ==
    [code |-> code, members |-> members, added |-> added, creating |-> creating]

\* Handler.Join from its first statement to generateToken inside
\* Sessions.Create, or to the error response that ends it.  code 0: the token
\* is generated and the session not stored yet.
JoinResult(body, f) ==
    IF ~body.decodeOK \/ body.InviteCode = "" \/ body.Username = ""
    THEN JoinReject(StatusBadRequest)
    ELSE IF f = "GetConversationByInviteCode" THEN JoinReject(StatusInternalServerError)
    ELSE
    LET conversation == GetConversationByInviteCode(body.InviteCode) IN
    IF ~conversation.found THEN JoinReject(StatusUnauthorized)
    ELSE
    LET am == IF f = "AddMember" THEN [err |-> TRUE, members |-> members]
              ELSE AddMember(members, conversation.ID, body.Username)
    IN
    IF am.err THEN JoinReject(StatusInternalServerError)
    ELSE
    LET joined == [ code |-> StatusInternalServerError,
                    members |-> am.members,
                    added |-> added \cup {<<conversation.ID, body.Username>>},
                    creating |-> creating ]
    IN
    IF f = "generateToken" THEN joined
    ELSE [joined EXCEPT
            !.code = 0,
            !.creating = creating \cup
                {[ token |-> generateToken, username |-> body.Username,
                   conversationID |-> conversation.ID ]}]

\* one Join call, up to its error response or to the locked write of its
\* session
Join(body, f) ==
    /\ LET res == JoinResult(body, f) IN
       /\ Cardinality(DOMAIN sessions) + Cardinality(res.creating) <= 2 + MaxSessions
       /\ members' = res.members
       /\ added' = res.added
       /\ creating' = res.creating
    /\ UNCHANGED <<sessions, tokens, conversations, videos, files, dirs, workers,
                   issued, inflight, now, log, runs, calls, trace>>

CreateFaults ==
    {"none", "generateID", "generateInviteCode", "CreateConversation", "AddMember"}

\* a Create result that wrote `code` and changed nothing
CreateReject(code) ==
    [ code |-> code, id |-> "", conversations |-> conversations,
      members |-> members, added |-> added ]

\* Handler.Create; name is the body's field, "" when the body does not decode
\* or leaves it out.  The n-th conversation gets the id c<n> and the invite
\* code i<n> (random values, never ones generated before).
CreateResult(r, name, f) ==
    LET session == requireSession(r) IN
    IF ~session.ok THEN CreateReject(session.code)
    ELSE IF name = "" THEN CreateReject(StatusBadRequest)
    ELSE IF f = "generateID" THEN CreateReject(StatusInternalServerError)
    ELSE IF f = "generateInviteCode" THEN CreateReject(StatusInternalServerError)
    ELSE
    LET n == Cardinality(DOMAIN conversations) + 1
        id == "c" \o ToString(n)
        inviteCode == "i" \o ToString(n)
        cc == IF f = "CreateConversation"
              THEN [err |-> TRUE, conversations |-> conversations]
              ELSE CreateConversation(conversations, id, inviteCode, name)
    IN
    IF cc.err THEN CreateReject(StatusInternalServerError)
    ELSE
    LET am == IF f = "AddMember" THEN [err |-> TRUE, members |-> members]
              ELSE AddMember(members, id, session.Username)
    IN
    IF am.err
    THEN [CreateReject(StatusInternalServerError) EXCEPT
            !.conversations = cc.conversations]
    ELSE [ code |-> StatusCreated, id |-> id,
           conversations |-> cc.conversations,
           members |-> am.members,
           added |-> added \cup {<<id, session.Username>>} ]

\* one Create call
Create(r, name, f) ==
    /\ LET res == CreateResult(r, name, f) IN
       /\ Cardinality(DOMAIN res.conversations) <= 2 + MaxConversations
       /\ conversations' = res.conversations
       /\ members' = res.members
       /\ added' = res.added
    /\ UNCHANGED <<sessions, creating, tokens, videos, files, dirs, workers,
                   issued, inflight, now, log, runs, calls, trace>>

(***************************************************************************)
(* The system                                                              *)
(***************************************************************************)
IDs == 1..MaxVideos

\* two conversations; alice joined both, bob joined c2 only; each holds a
\* session; nothing uploaded yet
Init ==
    /\ sessions = (T1 :> "alice") @@ (T2 :> "bob")
    /\ creating = {}
    /\ tokens = sessions
    /\ conversations = ("c1" :> [inviteCode |-> "i1", name |-> "n"])
                       @@ ("c2" :> [inviteCode |-> "i2", name |-> "n"])
    /\ members = {<<"c1", "alice">>, <<"c2", "alice">>, <<"c2", "bob">>}
    /\ added = members
    /\ videos = << >>
    /\ files = {}
    /\ dirs = {}
    /\ workers = << >>
    /\ issued = 0
    /\ inflight = {}
    /\ now = 0
    /\ log = {}
    /\ runs = << >>
    /\ calls = << >>
    /\ trace = << >>

\* the Upload calls the behaviours take, <<request, fault>>: the calls that
\* change the state (one request per conversation, under every fault met after
\* the checks) and one call of each rejected kind (a rejected call changes
\* nothing, so the remaining ones are stuttering steps)
Taken ==
    ( { Req(TRUE, T1, TRUE, "c1", TRUE, ClipMp4),
        Req(TRUE, T2, TRUE, "c2", TRUE, UpperMov) }
      \X {"none", "os.Create", "io.Copy", "CreateVideo", "CreateVideo+os.Remove"} )
    \cup
    { <<Req(TRUE, T1, TRUE, "c1", TRUE, ClipMp4), "IsMember">>,
      <<Req(TRUE, T1, TRUE, "c1", TRUE, ClipMp4), "generateID">>,
      <<Req(TRUE, T1, TRUE, "c1", TRUE, ClipMp4), "MkdirAll">>,
      <<Req(TRUE, T2, TRUE, "c1", TRUE, ClipMp4), "none">>,
      <<Req(TRUE, T1, TRUE, "c1", TRUE, TestExe), "none">>,
      <<Req(FALSE, << >>, TRUE, "c1", TRUE, ClipMp4), "none">>,
      <<Req(TRUE, T2, TRUE, "c1", TRUE, TestExe), "none">>,
      <<Req(TRUE, T2, TRUE, "c1", FALSE, << >>), "none">>,
      <<Req(TRUE, T1, TRUE, "", TRUE, ClipMp4), "IsMember">> }

\* the List calls the behaviours take
TakenList ==
    { Req(TRUE, T1, TRUE, "c1", FALSE, << >>),
      Req(TRUE, T2, TRUE, "c1", FALSE, << >>),
      Req(TRUE, TX, TRUE, "c1", FALSE, << >>) }

Next ==
    \/ \E c \in Taken : Upload(c[1], c[2])
    \/ \E r \in TakenList, f \in ListFaults : List(r, f)
    \/ \E id \in IDs : UploadReturn(id)
    \/ \E id \in IDs : transcode(id)

Spec == Init /\ [][Next]_vars

\* the Go scheduler runs every runnable goroutine, and every ffmpeg
\* invocation is taken to return: a worker that can step eventually steps
FairSpec == Spec /\ \A id \in IDs : WF_vars(transcode(id))

(***************************************************************************)
(* internal/storage on its own: the exported methods of DB called with any *)
(* arguments, as its tests and the handlers call them, while the clock     *)
(* runs                                                                    *)
(***************************************************************************)
Statuses == {"pending", "ready", "error"}
RowIDs == 1..MaxRows

\* conversation ids a caller may pass; c9 names no row of conversations
ConversationIDs == {"c1", "c2", "c9"}

\* db.CreateVideo(id, conversationID, uploader, filename); a failed INSERT
\* leaves the table as it was
CallCreateVideo(id, conversationID, uploader) ==
    /\ videos' = CreateVideo(videos, id, conversationID, uploader,
                             OutputPath(ConvDir(conversationID), id)).videos
    /\ UNCHANGED <<store, files, dirs, workers, issued, inflight, now, log, runs, calls, trace>>

\* db.UpdateVideoStatus(id, status)
CallUpdateVideoStatus(id, status) ==
    /\ videos' = UpdateVideoStatus(videos, id, status).videos
    /\ UNCHANGED <<store, files, dirs, workers, issued, inflight, now, log, runs, calls, trace>>

\* CURRENT_TIMESTAMP moves on by one second
Tick ==
    /\ now < MaxNow
    /\ now' = now + 1
    /\ UNCHANGED <<store, videos, files, dirs, workers, issued, inflight, log, runs, calls, trace>>

StoreNext ==
    \/ \E id \in RowIDs, c \in ConversationIDs : CallCreateVideo(id, c, "alice")
    \/ \E id \in RowIDs, st \in Statuses : CallUpdateVideoStatus(id, st)
    \/ Tick
    \/ \E r \in TakenList, f \in ListFaults : List(r, f)

StoreSpec == Init /\ [][StoreNext]_vars

(***************************************************************************)
(* The workers on their own: the goroutines of uploads that were accepted  *)
(* and answered, running side by side                                      *)
(***************************************************************************)
WorkerIDs == 1..MaxWorkers

\* the accepted uploads: the odd ones clip.mp4 sent by alice to c1, the even
\* ones A.MOV sent by bob to c2
UploadOf(id) ==
    IF id % 2 = 1 THEN Req(TRUE, T1, TRUE, "c1", TRUE, ClipMp4)
    ELSE Req(TRUE, T2, TRUE, "c2", TRUE, UpperMov)

OriginalOf(id) ==
    OriginalPath(ConvDir(UploadOf(id).conversationID), id,
                 ToLower(Ext(UploadOf(id).filename)))

\* the state Upload leaves after accepting and answering those uploads in the
\* order of their ids within one second, before any worker has stepped
WorkersInit ==
    /\ sessions = (T1 :> "alice") @@ (T2 :> "bob")
    /\ creating = {}
    /\ tokens = sessions
    /\ conversations = ("c1" :> [inviteCode |-> "i1", name |-> "n"])
                       @@ ("c2" :> [inviteCode |-> "i2", name |-> "n"])
    /\ members = {<<"c1", "alice">>, <<"c2", "alice">>, <<"c2", "bob">>}
    /\ added = members
    /\ videos = [id \in WorkerIDs |->
                   [ conversationID |-> UploadOf(id).conversationID,
                     uploader |-> requireSession(UploadOf(id)).Username,
                     filename |-> OutputPath(ConvDir(UploadOf(id).conversationID), id),
                     status |-> "pending",
                     uploadedAt |-> 0 ]]
    /\ files = {OriginalOf(id) : id \in WorkerIDs}
    /\ dirs = {ConvDir(UploadOf(id).conversationID) : id \in WorkerIDs}
    /\ workers = [id \in WorkerIDs |->
                    NewWorker(OriginalOf(id),
                              OutputPath(ConvDir(UploadOf(id).conversationID), id))]
    /\ issued = MaxWorkers
    /\ inflight = {}
    /\ now = 0
    /\ log = {}
    /\ runs = [id \in WorkerIDs |-> 0]
    /\ calls = [id \in WorkerIDs |-> 0]
    /\ trace = [id \in WorkerIDs |-> << >>]

WorkersNext == \E id \in WorkerIDs : transcode(id)

WorkersSpec == WorkersInit /\ [][WorkersNext]_vars

(***************************************************************************)
(* The conversation handlers and the session store on their own            *)
(***************************************************************************)
\* a request that carries the cookie and nothing the video handlers read
WithCookie(hasCookie, cookie) == Req(hasCookie, cookie, TRUE, "", FALSE, << >>)

\* the Join calls the behaviours take, <<body, fault>>
TakenJoins ==
    ( { JoinBody(TRUE, "i1", "carol") } \X JoinFaults ) \cup
    { <<JoinBody(TRUE, "i1", "alice"), "none">>,
      <<JoinBody(TRUE, "i3", "carol"), "none">>,
      <<JoinBody(TRUE, "zz", "carol"), "none">>,
      <<JoinBody(FALSE, "", ""), "none">> }

\* the Create calls the behaviours take, <<request, name, fault>>
TakenCreates ==
    ( { WithCookie(TRUE, T1), WithCookie(TRUE, Token(3)) } \X {"n"} \X CreateFaults )
    \cup
    { <<WithCookie(FALSE, << >>), "n", "none">>,
      <<WithCookie(TRUE, T1), "", "none">> }

ConvNext ==
    \/ \E c \in TakenJoins : Join(c[1], c[2])
    \/ \E c \in creating : StoreCreate(c)
    \/ \E c \in TakenCreates : Create(c[1], c[2], c[3])

ConvSpec == Init /\ [][ConvNext]_vars

(***************************************************************************)
(* Properties                                                              *)
(***************************************************************************)
\* the original files of video id on disk: original_<id><ext> in the
\* directory of its conversation
OriginalsOf(id) ==
    { p \in files : /\ p[1] = ConvDir(videos[id].conversationID)
                    /\ p[2] = "original_"
                    /\ p[3] = id }

HasOriginal(id) == OriginalsOf(id) # {}

\* the file at the canonical path recorded in the row
HasCanonical(id) == videos[id].filename \in files

\* the worker of video id left transcode through the `return` after a
\* successful attempt / through the end of the function after the loop
Succeeded(id) == id \in DOMAIN workers /\ workers[id].pc = "return"
Exhausted(id) == id \in DOMAIN workers /\ workers[id].pc = "end"

DeleteFailed(id) == <<id, "failed to delete original file">> \in log
StatusWriteFailed(id) == <<id, "failed to update video status">> \in log

\* C1: a row is created with status pending, and the only status changes of
\* a row are pending -> ready and pending -> error; a row that is ready or
\* error keeps its status, and no row goes back to pending.
C1_StatusTransitions ==
    [][ \A id \in DOMAIN videos' :
          IF id \in DOMAIN videos
          THEN \/ videos'[id].status = videos[id].status
               \/ /\ videos[id].status = "pending"
                  /\ videos'[id].status \in {"ready", "error"}
          ELSE videos'[id].status = "pending" ]_vars

C1_Witness ==
    \E id \in DOMAIN videos : videos[id].status = "ready" /\ Succeeded(id)

\* C2: every video that has a row has its original or its canonical file on
\* disk, and a step that deletes the original of such a video is the os.Remove
\* step of that video's worker, taken after an attempt reported success (the
\* canonical file is there).
C2_OriginalKept ==
    /\ [](\A id \in DOMAIN videos : HasOriginal(id) \/ HasCanonical(id))
    /\ [][ \A id \in DOMAIN videos :
             (HasOriginal(id) /\ ~HasOriginal(id)') =>
                 /\ workers[id].pc = "remove"
                 /\ workers'[id].pc = "setReady"
                 /\ HasCanonical(id) ]_vars

C2_Witness ==
    \E id \in DOMAIN videos : ~HasOriginal(id) /\ HasCanonical(id)

\* C3 as stated: after the run of a worker whose conversion succeeded, the
\* canonical file exists, the original does not, and the status is ready; and
\* a ready video has only its canonical file.
C3_SucceededReady ==
    \A id \in DOMAIN videos :
        /\ Succeeded(id) =>
             HasCanonical(id) /\ ~HasOriginal(id) /\ videos[id].status = "ready"
        /\ videos[id].status = "ready" => HasCanonical(id) /\ ~HasOriginal(id)

\* C3 amended: after the run of a worker whose conversion succeeded, the
\* canonical file exists; the original is gone unless its deletion failed
\* (logged), and then it is still there; the status is ready unless the status
\* write failed (logged), and then it is still pending.  A ready video has its
\* canonical file, and its original only after a failed deletion.
C3_SucceededOutcome ==
    \A id \in DOMAIN videos :
        /\ Succeeded(id) =>
             /\ HasCanonical(id)
             /\ HasOriginal(id) <=> DeleteFailed(id)
             /\ videos[id].status =
                    IF StatusWriteFailed(id) THEN "pending" ELSE "ready"
        /\ videos[id].status = "ready" =>
             /\ HasCanonical(id)
             /\ HasOriginal(id) <=> DeleteFailed(id)

C3_Witness ==
    \E id \in DOMAIN videos :
        Succeeded(id) /\ videos[id].status = "ready" /\ ~HasOriginal(id)

\* C4 as stated: after the run of a worker whose every attempt failed, the
\* original exists, the status is error, and exactly maxRetries attempts were
\* made.
C4_ExhaustedError ==
    \A id \in DOMAIN videos :
        Exhausted(id) =>
            /\ HasOriginal(id)
            /\ videos[id].status = "error"
            /\ runs[id] = 3

\* C4 amended: after the run of a worker whose every attempt failed, the
\* original exists and exactly 3 attempts were made; the status is error
\* unless the status write failed (logged), and then it is still pending.
C4_ExhaustedOutcome ==
    \A id \in DOMAIN videos :
        Exhausted(id) =>
            /\ HasOriginal(id)
            /\ runs[id] = 3
            /\ videos[id].status =
                   IF StatusWriteFailed(id) THEN "pending" ELSE "error"

C4_Witness ==
    \E id \in DOMAIN videos :
        Exhausted(id) /\ videos[id].status = "error" /\ runs[id] = 3

\* C5: when an accepted Upload call returns (writes its 202), the row of the
\* video exists with status pending and the original file is on disk.
C5_PendingAtReturn ==
    [][ \A id \in inflight \ inflight' :
          /\ id \in DOMAIN videos'
          /\ videos'[id].status = "pending"
          /\ HasOriginal(id)' ]_vars

Finished(id) == Succeeded(id) \/ Exhausted(id)

\* C6: under weak fairness of the worker's steps a dispatched worker
\* eventually ends its run, and then the status is ready or error unless the
\* status write failed; a run ends only after an attempt succeeded (within
\* the 3 attempts, the output written) or after 3 failed attempts.
C6_RunTerminates ==
    /\ \A id \in IDs :
         (id \in DOMAIN workers) ~>
             (Finished(id) /\ (~StatusWriteFailed(id) =>
                                   videos[id].status \in {"ready", "error"}))
    /\ [](\A id \in DOMAIN workers :
            /\ Succeeded(id) => runs[id] \in 1..3 /\ HasCanonical(id)
            /\ Exhausted(id) => runs[id] = 3 /\ workers[id].lastErr)

C6_Witness ==
    \E id \in DOMAIN workers :
        Succeeded(id) /\ runs[id] = 2 /\ videos[id].status = "ready"

\* the request carries a cookie whose trimmed value is a token of the store
ValidSession(r) == r.hasCookie /\ TrimSpace(r.cookie) \in DOMAIN sessions
UserOf(r) == sessions[TrimSpace(r.cookie)]
NonMember(r) ==
    /\ ValidSession(r)
    /\ r.conversationID # ""
    /\ <<r.conversationID, UserOf(r)>> \notin members

\* the handler result res leaves rows, files, directories and workers as
\* they are
NoMutation(res) ==
    /\ res.videos = videos
    /\ res.files = files
    /\ res.dirs = dirs
    /\ res.workers = workers
    /\ res.inflight = inflight

\* C7: an Upload whose session is valid and whose body names a conversation
\* the session's user is not a member of creates no row, no file, no
\* directory and no worker, whatever file part it carries, and is answered
\* 403 whenever the membership lookup answers.
C7_NonMemberForbidden ==
    \A r \in Requests, f \in UploadFaults :
        (NonMember(r) /\ r.parseOK) =>
            /\ NoMutation(UploadResult(r, f))
            /\ f # "IsMember" => UploadResult(r, f).code = 403

C7_Witness ==
    /\ videos # << >>
    /\ files # {}
    /\ \E r \in Requests :
         /\ NonMember(r) /\ r.parseOK /\ r.hasFile
         /\ UploadResult(r, "none").code = 403

\* the declared names whose extension is .mp4, .mov, .avi or .mkv in any case
AllowedNames == {ClipMp4, UpperMov, XAvi, MixedMkv, ExeMp4}

Member(r) ==
    /\ ValidSession(r)
    /\ r.conversationID # ""
    /\ <<r.conversationID, UserOf(r)>> \in members

\* C8: an Upload by a member with a file part passes the format gate exactly
\* when the extension of the declared name is .mp4, .mov, .avi or .mkv in any
\* case (and is then accepted unless the environment fails); with any other
\* extension it is answered 400 and creates no row, no file, no directory
\* and no worker.
C8_FormatGate ==
    \A r \in Requests, f \in UploadFaults \ {"IsMember"} :
        (Member(r) /\ r.parseOK /\ r.hasFile) =>
            LET res == UploadResult(r, f) IN
            IF r.filename \in AllowedNames
            THEN /\ res.code # 400
                 /\ f = "none" =>
                      /\ res.code = 0
                      /\ res.id \in DOMAIN res.videos \ DOMAIN videos
                      /\ res.id \in DOMAIN res.workers \ DOMAIN workers
            ELSE res.code = 400 /\ NoMutation(res)

C8_Witness ==
    /\ videos # << >>
    /\ \E r \in Requests :
         /\ Member(r) /\ r.parseOK /\ r.hasFile
         /\ r.filename \notin AllowedNames
         /\ UploadResult(r, "none").code = 400
    /\ \E id \in DOMAIN videos :
         OriginalPath("c2", id, <<".", "m", "o", "v">>) \in files

\* C9: Upload and List answer 401 exactly for a request without a cookie of
\* a known token, and 403 exactly when the session is valid, a conversation
\* id is given and the session's user is not a member of it (the lookup
\* answering); neither answer comes with a mutation.
C9_AuthErrors ==
    \A r \in Requests :
        /\ \A f \in UploadFaults :
             LET res == UploadResult(r, f) IN
             /\ ~ValidSession(r) => res.code = 401
             /\ (NonMember(r) /\ r.parseOK /\ f # "IsMember") => res.code = 403
             /\ res.code = 401 => ~ValidSession(r)
             /\ res.code = 403 => NonMember(r)
             /\ res.code \in {401, 403} => NoMutation(res)
        /\ \A f \in ListFaults, o \in Orders(r.conversationID) :
             LET res == ListResult(r, f, o) IN
             /\ ~ValidSession(r) => res.code = 401
             /\ (NonMember(r) /\ f # "IsMember") => res.code = 403
             /\ res.code = 401 => ~ValidSession(r)
             /\ res.code = 403 => NonMember(r)

C9_Witness ==
    /\ videos # << >>
    /\ \E r \in Requests :
         /\ ~r.hasCookie
         /\ UploadResult(r, "none").code = 401
         /\ \A o \in Orders(r.conversationID) : ListResult(r, "none", o).code = 401
    /\ \E r \in Requests :
         /\ NonMember(r) /\ r.parseOK
         /\ UploadResult(r, "none").code = 403
         /\ \A o \in Orders(r.conversationID) : ListResult(r, "none", o).code = 403

\* C10: an Upload whose save to the original path fails leaves no row, no
\* worker and no file: every file on disk lies at the original or the
\* canonical path of a video that has a row.
C10_NoFileAfterFailedSave ==
    \A p \in files : p[3] \in DOMAIN videos /\ p[3] \in DOMAIN workers

\* the request passes every check of Upload before the file is saved
Saves(r) ==
    Member(r) /\ r.parseOK /\ r.hasFile /\ r.filename \in AllowedNames

\* C11 as stated: when CreateVideo fails after the original was written, the
\* call is answered 500, no worker is dispatched, and afterwards there is no
\* row and no file of that upload.
C11_CreateFailureRollsBack ==
    \A r \in Requests, f \in {"CreateVideo", "CreateVideo+os.Remove"} :
        Saves(r) =>
            LET res == UploadResult(r, f) IN
            /\ res.code = 500
            /\ res.workers = workers /\ res.inflight = inflight
            /\ res.videos = videos
            /\ res.files = files

\* C11 amended: when CreateVideo fails after the original was written, the
\* call is answered 500, no worker is dispatched and no row exists; the
\* original file is gone when os.Remove deleted it, and is the one file left
\* behind when os.Remove itself failed.
C11_CreateFailureOutcome ==
    \A r \in Requests, f \in {"CreateVideo", "CreateVideo+os.Remove"} :
        Saves(r) =>
            LET res == UploadResult(r, f)
                originalPath == OriginalPath(ConvDir(r.conversationID), issued + 1,
                                             ToLower(Ext(r.filename)))
            IN
            /\ res.code = 500
            /\ res.workers = workers /\ res.inflight = inflight
            /\ res.videos = videos
            /\ res.files = IF f = "CreateVideo" THEN files
                           ELSE files \cup {originalPath}
            /\ originalPath \notin files

\* a failed intake left the conversation directory and nothing else
C11_Witness ==
    /\ dirs = {"c1"} /\ files = {} /\ videos = << >> /\ workers = << >>
    /\ \E r \in Requests :
         /\ Saves(r) /\ r.conversationID = "c1"
         /\ UploadResult(r, "CreateVideo").code = 500
         /\ UploadResult(r, "CreateVideo").files = {}

\* C12: List called by a member for a conversation answers 200 with one
\* entry for each row of videos whose conversation_id is that conversation,
\* whatever its status, carrying the row's fields, and with no entry for a row
\* of another conversation.
C12_ListExactlyConversation ==
    \A r \in Requests : Member(r) =>
        \A o \in Orders(r.conversationID) :
            LET res == ListResult(r, "none", o)
                n == Len(res.body)
                rows == {id \in DOMAIN videos :
                            videos[id].conversationID = r.conversationID}
            IN  /\ res.code = 200
                /\ {res.body[i].id : i \in 1..n} = rows
                /\ n = Cardinality(rows)
                /\ \A i \in 1..n :
                     /\ res.body[i].status = videos[res.body[i].id].status
                     /\ res.body[i].uploader = videos[res.body[i].id].uploader
                     /\ res.body[i].uploaded_at = videos[res.body[i].id].uploadedAt

\* c1 holds a row that is not pending next to a row of another conversation
C12_Witness ==
    \E a, b \in DOMAIN videos :
        /\ videos[a].conversationID = "c1" /\ videos[a].status = "error"
        /\ videos[b].conversationID = "c2" /\ videos[b].status = "ready"
        /\ \E r \in Requests :
             /\ Member(r) /\ r.conversationID = "c1"
             /\ \A o \in Orders("c1") : Len(ListResult(r, "none", o).body) = 1

\* C13 as stated: in every list returned to a member each entry has a
\* strictly later uploaded_at than the entry after it.
C13_StrictlyDescending ==
    \A r \in Requests : Member(r) =>
        \A o \in Orders(r.conversationID) :
            LET body == ListResult(r, "none", o).body IN
            \A i \in 1..(Len(body) - 1) :
                body[i].uploaded_at > body[i + 1].uploaded_at

\* C13 amended: in every list returned to a member each entry has a later or
\* equal uploaded_at than the entry after it (rows recorded in the same
\* second are adjacent, in either order).
C13_Descending ==
    \A r \in Requests : Member(r) =>
        \A o \in Orders(r.conversationID) :
            LET body == ListResult(r, "none", o).body IN
            \A i \in 1..(Len(body) - 1) :
                body[i].uploaded_at >= body[i + 1].uploaded_at

\* two rows of c1 recorded in different seconds, the newer one with the
\* smaller id
C13_Witness ==
    \E a, b \in DOMAIN videos :
        /\ a < b
        /\ videos[a].conversationID = "c1" /\ videos[b].conversationID = "c1"
        /\ videos[a].uploadedAt > videos[b].uploadedAt
        /\ \E r \in Requests :
             /\ Member(r) /\ r.conversationID = "c1"
             /\ \A o \in Orders("c1") : ListResult(r, "none", o).body[1].id = a

\* the List calls of the members: alice for c1 and c2, bob for c2
Listers ==
    { Req(TRUE, T1, TRUE, "c1", FALSE, << >>),
      Req(TRUE, T1, TRUE, "c2", FALSE, << >>),
      Req(TRUE, T2, TRUE, "c2", FALSE, << >>) }

\* every response List may give to r when the queries succeed
ListResults(r) ==
    { ListResult(r, "none", o) : o \in Orders(r.conversationID) }

\* the step is the status write that ends a worker's run
StatusWritten ==
    \E id \in DOMAIN workers :
        /\ workers[id].pc \in {"setReady", "setError"}
        /\ workers'[id].pc # workers[id].pc

C15_PendingOnlyOriginal ==
    \A id \in DOMAIN videos :
        videos[id].status = "pending" => HasOriginal(id) /\ ~HasCanonical(id)

\* C15 amended: a pending video has its original on disk and no file at its
\* canonical path until its worker has run a conversion attempt; afterwards
\* the canonical path may hold the output of ffmpeg, and the original is on
\* disk unless the worker deleted it after a successful attempt (the canonical
\* file is then there, and the worker is at its status write or has returned).
C15_PendingFiles ==
    \A id \in DOMAIN videos :
        videos[id].status = "pending" =>
            /\ runs[id] = 0 => HasOriginal(id) /\ ~HasCanonical(id)
            /\ ~HasOriginal(id) =>
                 /\ HasCanonical(id)
                 /\ workers[id].pc \in {"setReady", "return"}
                 /\ ~DeleteFailed(id)

\* pending with the canonical file only: the original is deleted and the
\* status not yet written
C15_Witness ==
    \E id \in DOMAIN videos :
        /\ videos[id].status = "pending"
        /\ ~HasOriginal(id) /\ HasCanonical(id)
        /\ Running(id, "setReady")

\* C16: a video whose status is error has its original file on disk and no
\* file at its canonical path.
C16_ErrorOnlyOriginal ==
    \A id \in DOMAIN videos :
        videos[id].status = "error" => HasOriginal(id) /\ ~HasCanonical(id)

\* C17: a worker has made no UpdateVideoStatus call while it runs and
\* exactly one when its run has ended, by either path; a row changes only in
\* the step of that one call of its own worker, and only in its status; a
\* step of a worker adds and removes no row and leaves sessions,
\* conversations and members alone.
C17_OneStatusCall ==
    /\ [](\A id \in DOMAIN workers :
            calls[id] = IF Finished(id) THEN 1 ELSE 0)
    /\ [][ \A id \in DOMAIN videos :
             /\ id \in DOMAIN videos'
             /\ videos'[id] # videos[id] =>
                  /\ calls[id] = 0 /\ calls'[id] = 1
                  /\ [videos'[id] EXCEPT !.status = videos[id].status] = videos[id]
                  /\ \A other \in DOMAIN videos \ {id} : videos'[other] = videos[other]
           ]_vars
    /\ [][ (\E id \in DOMAIN workers : workers'[id] # workers[id]) =>
             /\ DOMAIN videos' = DOMAIN videos
             /\ UNCHANGED store ]_vars

\* a run that ended by the success path after a failed deletion, with its one
\* call made
C17_Witness ==
    \E id \in DOMAIN workers :
        Succeeded(id) /\ calls[id] = 1 /\ DeleteFailed(id) /\ videos[id].status = "ready"

\* C18: UpdateVideoStatus called with an id that has no row returns an error
\* and leaves the table as it was; called with the id of a row it sets the
\* status of that row to the value given.
C18_SetStatusUnknownFails ==
    \A id \in RowIDs, st \in Statuses :
        LET upd == UpdateVideoStatus(videos, id, st) IN
        IF id \notin DOMAIN videos
        THEN upd.err /\ upd.videos = videos
        ELSE ~upd.err /\ upd.videos = [videos EXCEPT ![id].status = st]

\* C19: CreateVideo returns an error and leaves the table as it was when the
\* id already has a row and when the conversation id names no conversation;
\* otherwise it adds exactly one row, with status pending.
C19_CreatePendingChecks ==
    \A id \in RowIDs, c \in ConversationIDs :
        LET res == CreateVideo(videos, id, c, "alice", OutputPath(ConvDir(c), id)) IN
        IF id \in DOMAIN videos \/ c \notin DOMAIN conversations
        THEN res.err /\ res.videos = videos
        ELSE /\ ~res.err
             /\ DOMAIN res.videos = DOMAIN videos \cup {id}
             /\ res.videos[id].status = "pending"
             /\ res.videos[id].conversationID = c
             /\ \A v \in DOMAIN videos : res.videos[v] = videos[v]

\* the request is refused for what the client sent: a body that does not
\* parse, no conversation id, or (from a member) no file part
ClientInputError(r) ==
    \/ ~r.parseOK
    \/ r.conversationID = ""
    \/ Member(r) /\ ~r.hasFile

\* C20: an Upload with a valid session that is refused for a client input
\* error is answered 400 and leaves the rows, the files, the directories and
\* the workers as they were (the membership lookup answering, where the
\* request gets that far).
C20_ClientErrorNoMutation ==
    \A r \in Requests, f \in UploadFaults :
        (ValidSession(r) /\ ClientInputError(r)
            /\ (f = "IsMember" => ~r.parseOK \/ r.conversationID = "")) =>
            LET res == UploadResult(r, f) IN
            res.code = 400 /\ NoMutation(res) /\ res.issued = issued

\* with a video in the store, requests of each of the three kinds get 400
C20_Witness ==
    /\ videos # << >> /\ workers # << >>
    /\ \E r \in Requests :
         ValidSession(r) /\ ~r.parseOK /\ UploadResult(r, "none").code = 400
    /\ \E r \in Requests :
         /\ ValidSession(r) /\ r.parseOK /\ r.conversationID = ""
         /\ UploadResult(r, "none").code = 400
    /\ \E r \in Requests :
         /\ Member(r) /\ r.parseOK /\ ~r.hasFile
         /\ UploadResult(r, "none").code = 400

\* tokens a client may present: those generateToken can have returned, the
\* next one, and one it never returns
TokenUniverse == {Token(n) : n \in 1..(MaxSessions + 3)} \cup {TX}

\* C21: Get succeeds for every token Store.Create has returned, with the
\* username that Create was given, and fails for every other token, a token
\* generated by a Create still before its locked write included; no step
\* removes or rebinds an entry of the session map.
C21_SessionsKept ==
    /\ [](\A t \in DOMAIN tokens : Get(t) = [ok |-> TRUE, Username |-> tokens[t]])
    /\ [](\A t \in TokenUniverse \ DOMAIN tokens : ~Get(t).ok)
    /\ [][ \A t \in DOMAIN sessions :
             t \in DOMAIN sessions' /\ sessions'[t] = sessions[t] ]_vars

\* two sessions created for one username, both answered, next to a session
\* that was there before
C21_Witness ==
    /\ \E t, u \in DOMAIN tokens \ {T1, T2} :
         /\ t # u /\ tokens[t] = tokens[u]
         /\ Get(t).ok /\ Get(u).ok
    /\ Get(T1) = [ok |-> TRUE, Username |-> "alice"]

ConversationIDs22 == {"c1", "c2", "c3", "c4", "c9"}

\* C22: IsMember(c, u) answers true exactly for the pairs an AddMember call
\* that returned nil was given; AddMember of a pair already there returns nil
\* and leaves the table as it is; no step removes a row of members.
C22_Membership ==
    /\ [](\A c \in ConversationIDs22, u \in Usernames :
            IsMember(c, u) <=> <<c, u>> \in added)
    /\ [](\A m \in members :
            AddMember(members, m[1], m[2]) = [err |-> FALSE, members |-> members])
    /\ [][members \subseteq members']_vars

\* alice, a member of c1 from the start, joined c1 again and got her session
C22_Witness ==
    /\ \E t \in DOMAIN sessions \ {T1} : sessions[t] = "alice"
    /\ IsMember("c1", "alice")
    /\ \E c \in DOMAIN conversations \ {"c1", "c2"} : \E u \in Usernames : IsMember(c, u)

\* the body decodes and carries both fields
WellFormed(body) == body.decodeOK /\ body.InviteCode # "" /\ body.Username # ""

\* the invite code of the body is that of a row of conversations
KnownInvite(body) ==
    \E c \in DOMAIN conversations : conversations[c].inviteCode = body.InviteCode

\* C23: a Join whose invite code matches no conversation adds no membership
\* and starts no session, and is answered 401 when its body is well formed and
\* the lookup answers; a well-formed Join with the invite code of a
\* conversation, every call succeeding, adds its username to the members of
\* that conversation and stores a session under a new token bound to that
\* username.
C23_Join ==
    /\ [](\A body \in JoinBodies, f \in JoinFaults :
            LET res == JoinResult(body, f) IN
            /\ ~KnownInvite(body) =>
                 /\ res.members = members /\ res.creating = creating
                 /\ (WellFormed(body) /\ f # "GetConversationByInviteCode") =>
                        res.code = 401
            /\ (WellFormed(body) /\ KnownInvite(body) /\ f = "none") =>
                 /\ res.code = 0
                 /\ res.members = members \cup
                        {<<GetConversationByInviteCode(body.InviteCode).ID,
                           body.Username>>}
                 /\ \E c \in res.creating \ creating :
                        /\ res.creating = creating \cup {c}
                        /\ c.username = body.Username
                        /\ conversations[c.conversationID].inviteCode = body.InviteCode
                        /\ c.token \notin DOMAIN sessions)
    /\ [][ \A c \in creating \ creating' :
             /\ c.token \notin DOMAIN sessions
             /\ DOMAIN sessions' = DOMAIN sessions \cup {c.token}
             /\ sessions'[c.token] = c.username
             /\ <<c.conversationID, c.username>> \in members' ]_vars

\* carol joined c1 and holds a session, and a Join with an unknown code is
\* answered 401
C23_Witness ==
    /\ \E t \in DOMAIN sessions : sessions[t] = "carol"
    /\ <<"c1", "carol">> \in members
    /\ JoinResult(JoinBody(TRUE, "zz", "carol"), "none").code = 401

\* the requests a client may send to Create
CreateRequests ==
    { WithCookie(TRUE, t) : t \in TokenUniverse } \cup
    { WithCookie(FALSE, << >>), WithCookie(TRUE, <<" ">>) }

\* C24: a Create answered 201 added a conversation and made the session's
\* user a member of it, and every Create with a valid session and a name is
\* answered 201 when every call succeeds; a Create without a valid session is
\* answered 401 and adds no conversation and no member.  A member of a
\* created conversation who holds a session can upload to it and list it.
C24_CreatorIsMember ==
    /\ \A r \in CreateRequests, name \in {"", "n"}, f \in CreateFaults :
         LET res == CreateResult(r, name, f) IN
         /\ res.code = 201 =>
              /\ res.id \notin DOMAIN conversations
              /\ DOMAIN res.conversations = DOMAIN conversations \cup {res.id}
              /\ res.members = members \cup {<<res.id, UserOf(r)>>}
         /\ (ValidSession(r) /\ name # "" /\ f = "none") => res.code = 201
         /\ ~ValidSession(r) =>
              /\ res.code = 401
              /\ res.conversations = conversations /\ res.members = members
    /\ \A c \in DOMAIN conversations \ {"c1", "c2"}, t \in DOMAIN sessions :
         <<c, sessions[t]>> \in members =>
             /\ UploadResult(Req(TRUE, t, TRUE, c, TRUE, ClipMp4), "none").code = 0
             /\ \A o \in Orders(c) :
                  ListResult(Req(TRUE, t, TRUE, c, FALSE, << >>), "none", o).code = 200

\* carol, who got her session by joining c1, created c3 and is its member
C24_Witness ==
    /\ "c3" \in DOMAIN conversations
    /\ \E t \in DOMAIN sessions \ {T1, T2} :
         /\ sessions[t] = "carol"
         /\ <<"c3", "carol">> \in members
         /\ UploadResult(Req(TRUE, t, TRUE, "c3", TRUE, ClipMp4), "none").code = 0

\* the positions of the ffmpeg runs in what a worker did
AttemptsIn(t) == {i \in 1..Len(t) : t[i] # "sleep"}

\* C25: in what a worker did, a successful ffmpeg run is the last entry (no
\* attempt and no wait follows it); a failed run is followed, if by anything,
\* by one wait, and a wait comes right after a failed run and is followed, if
\* by anything, by an attempt; there are at most 3 attempts and nothing
\* follows the third.
C25_RetryOrder ==
    \A id \in DOMAIN workers :
        LET t == trace[id]
            n == Len(t)
        IN  /\ \A i \in 1..n :
                 /\ t[i] = "ok" => i = n
                 /\ (t[i] = "fail" /\ i < n) => t[i + 1] = "sleep"
                 /\ t[i] = "sleep" =>
                      /\ i > 1 /\ t[i - 1] = "fail"
                      /\ i < n => t[i + 1] # "sleep"
            /\ Cardinality(AttemptsIn(t)) <= 3
            /\ Cardinality(AttemptsIn(t)) = 3 => t[n] # "sleep"
            /\ Cardinality(AttemptsIn(t)) = runs[id]
            /\ Finished(id) => t[n] = "ok" \/ Cardinality(AttemptsIn(t)) = 3

\* two failed attempts, each followed by its wait, and a third that succeeded
C25_Witness ==
    \E id \in DOMAIN workers :
        trace[id] = <<"fail", "sleep", "fail", "sleep", "ok">> /\ Succeeded(id)

\* C26: the videos that have a worker are the videos that have a row; until
\* the first conversion attempt of a video its original file is on disk and
\* its row is pending; an Upload that dispatches a worker dispatches exactly
\* one, for the new id, with the row created and the original written, and
\* only when no call failed; any other Upload dispatches none and creates no
\* row.
C26_IntakeBeforeTranscode ==
    /\ DOMAIN workers = DOMAIN videos
    /\ \A id \in DOMAIN workers :
         runs[id] = 0 =>
             /\ workers[id].inputPath \in files
             /\ videos[id].status = "pending"
             /\ Running(id, "ffmpeg")
    /\ \A r \in Requests, f \in UploadFaults :
         LET res == UploadResult(r, f) IN
         IF res.code = 0
         THEN /\ f = "none" /\ Saves(r)
              /\ res.id \notin DOMAIN workers
              /\ DOMAIN res.workers = DOMAIN workers \cup {res.id}
              /\ \A w \in DOMAIN workers : res.workers[w] = workers[w]
              /\ DOMAIN res.videos = DOMAIN videos \cup {res.id}
              /\ res.videos[res.id].status = "pending"
              /\ res.workers[res.id].inputPath \in res.files
              /\ res.workers[res.id].outputPath = res.videos[res.id].filename
         ELSE res.workers = workers /\ res.videos = videos

\* a dispatched worker before its first attempt, next to the directory left by
\* an intake that failed and dispatched nothing
C26_Witness ==
    /\ \E id \in DOMAIN workers :
         runs[id] = 0 /\ videos[id].conversationID = "c1"
    /\ dirs = {"c1", "c2"}
    /\ \A id \in DOMAIN videos : videos[id].conversationID # "c2"

\* C27: a step of the worker of a video creates and deletes no file but at
\* the original and the canonical path of that video, creates no directory,
\* changes no row and no worker of another video, adds and removes no row,
\* and changes nothing of its own row but the status; the two paths of a
\* worker are those of its video.
C27_WorkerIsolation ==
    /\ [](\A id \in DOMAIN workers :
            /\ workers[id].outputPath = videos[id].filename
            /\ workers[id].inputPath[1] = ConvDir(videos[id].conversationID)
            /\ workers[id].inputPath[3] = id
            /\ workers[id].outputPath[3] = id)
    /\ [][ \A id \in DOMAIN workers :
             (id \in DOMAIN workers' /\ workers'[id] # workers[id]) =>
                 /\ (files' \ files) \cup (files \ files')
                        \subseteq {workers[id].inputPath, workers[id].outputPath}
                 /\ dirs' = dirs
                 /\ DOMAIN videos' = DOMAIN videos
                 /\ \A other \in DOMAIN videos \ {id} :
                      /\ videos'[other] = videos[other]
                      /\ workers'[other] = workers[other]
                 /\ [videos'[id] EXCEPT !.status = videos[id].status] = videos[id]
           ]_vars

\* one video is ready with only its canonical file while another, whose
\* worker has failed an attempt, is pending with its original
C27_Witness ==
    \E a, b \in DOMAIN videos :
        /\ a # b
        /\ Succeeded(a) /\ videos[a].status = "ready" /\ ~HasOriginal(a)
        /\ Running(b, "sleep") /\ videos[b].status = "pending" /\ HasOriginal(b)

\* C28 as stated: a worker whose status write failed has ended its run with
\* that one write; the video is pending; after a successful conversion its
\* canonical file is there and its original is not, after exhaustion its
\* original is there.
C28_StatusWriteFailure ==
    \A id \in DOMAIN workers :
        StatusWriteFailed(id) =>
            /\ Finished(id) /\ calls[id] = 1
            /\ videos[id].status = "pending"
            /\ Succeeded(id) => HasCanonical(id) /\ ~HasOriginal(id)
            /\ Exhausted(id) => HasOriginal(id)

\* C28 amended: a worker whose status write failed has ended its run with
\* that one write; the video is pending; after a successful conversion its
\* canonical file is there and its original is not unless the deletion failed
\* too, after exhaustion its original is there; and no later step changes the
\* row or the files of that video.
C28_StatusWriteFailureOutcome ==
    /\ [](\A id \in DOMAIN workers :
            StatusWriteFailed(id) =>
                /\ Finished(id) /\ calls[id] = 1
                /\ videos[id].status = "pending"
                /\ Succeeded(id) =>
                     HasCanonical(id) /\ (HasOriginal(id) <=> DeleteFailed(id))
                /\ Exhausted(id) => HasOriginal(id))
    /\ [][ \A id \in DOMAIN workers :
             StatusWriteFailed(id) =>
                 /\ videos'[id] = videos[id]
                 /\ workers'[id] = workers[id]
                 /\ HasOriginal(id)' = HasOriginal(id)
                 /\ HasCanonical(id)' = HasCanonical(id) ]_vars

\* a converted video left pending by a failed status write, with only its
\* canonical file
C28_Witness ==
    \E id \in DOMAIN workers :
        /\ StatusWriteFailed(id) /\ Succeeded(id)
        /\ videos[id].status = "pending"
        /\ HasCanonical(id) /\ ~HasOriginal(id)

\* C29: once the deletion of the original failed after a successful attempt,
\* that attempt stays the worker's last, the worker goes on to the write of
\* ready and returns, the status is never error, and it is ready once the run
\* has ended unless that write failed.
C29_DeleteFailureIgnored ==
    \A id \in DOMAIN workers :
        DeleteFailed(id) =>
            /\ trace[id][Len(trace[id])] = "ok"
            /\ workers[id].pc \in {"setReady", "return"}
            /\ videos[id].status # "error"
            /\ HasOriginal(id) /\ HasCanonical(id)
            /\ Succeeded(id) =>
                 /\ calls[id] = 1
                 /\ videos[id].status =
                        IF StatusWriteFailed(id) THEN "pending" ELSE "ready"

\* a run that succeeded at its second attempt, could not delete the original
\* and set the status to ready
C29_Witness ==
    \E id \in DOMAIN workers :
        /\ DeleteFailed(id) /\ Succeeded(id) /\ HasOriginal(id)
        /\ videos[id].status = "ready"
        /\ trace[id] = <<"fail", "sleep", "ok">>

\* the status codes List answers with
ListCodes ==
    { StatusOK, StatusBadRequest, StatusUnauthorized, StatusForbidden,
      StatusInternalServerError }

\* the step is one of Upload, of its return or of a worker
UploadOrWorkerStep ==
    \/ \E c \in Taken : Upload(c[1], c[2])
    \/ \E id \in IDs : UploadReturn(id)
    \/ \E id \in IDs : transcode(id)

\* C30: every response of List carries one of the codes 200, 400, 401, 403
\* and 500; every step that changes a video row, a membership, a session or
\* a file on disk is a step of Upload or of a worker, never of List; and a
\* step that changes only the disk leaves every response of List as it was.
C30_ListReadOnly ==
    /\ [](\A r \in Requests, f \in ListFaults :
            \A o \in Orders(r.conversationID) :
                ListResult(r, f, o).code \in ListCodes)
    /\ [][ ~UNCHANGED <<store, videos, files, dirs>> => UploadOrWorkerStep ]_vars
    /\ [][ (UNCHANGED <<store, videos>> /\ files' # files) =>
             \A r \in TakenList, f \in ListFaults :
                 { ListResult(r, f, o) : o \in Orders(r.conversationID) }'
                 = { ListResult(r, f, o) : o \in Orders(r.conversationID) } ]_vars

\* a video and its files exist and List has answered a member with 200 and
\* can answer with each of 400, 401, 403 and 500
C30_Witness ==
    /\ videos # << >> /\ files # {}
    /\ \E r \in TakenList :
         \E o \in Orders(r.conversationID) :
            /\ ListResult(r, "none", o).code = StatusOK
            /\ Len(ListResult(r, "none", o).body) = 1
    /\ \A code \in ListCodes :
         \E r \in Requests, f \in ListFaults :
            \E o \in Orders(r.conversationID) : ListResult(r, f, o).code = code

\* the first check of the stated order that the request r fails, with the
\* status it is answered with; "none" when r passes all six
FirstFailing(r) ==
    IF ~ValidSession(r) THEN [check |-> "session", code |-> StatusUnauthorized]
    ELSE IF ~r.parseOK THEN [check |-> "body", code |-> StatusBadRequest]
    ELSE IF r.conversationID = ""
    THEN [check |-> "conversation_id", code |-> StatusBadRequest]
    ELSE IF <<r.conversationID, UserOf(r)>> \notin members
    THEN [check |-> "membership", code |-> StatusForbidden]
    ELSE IF ~r.hasFile THEN [check |-> "file", code |-> StatusBadRequest]
    ELSE IF r.filename \notin AllowedNames
    THEN [check |-> "extension", code |-> StatusBadRequest]
    ELSE [check |-> "none", code |-> 0]

\* C31: Upload answers with the status of the first check that fails in the
\* order session (401), body (400), conversation id (400), membership (403),
\* file part (400), extension (400).  A request failing one of the first
\* three gets that answer even when the membership lookup would fail, so the
\* lookup is not made; a request passing them meets the lookup (500 when it
\* fails) before the file checks, so a non-member gets 403 whatever the file
\* part; a request passing all six is not answered 400, 401 or 403.
C31_CheckOrder ==
    \A r \in Requests, f \in UploadFaults :
        LET code == UploadResult(r, f).code
            first == FirstFailing(r)
        IN  IF first.check \in {"session", "body", "conversation_id"}
            THEN code = first.code
            ELSE IF f = "IsMember" THEN code = StatusInternalServerError
            ELSE IF first.check # "none" THEN code = first.code
            ELSE code \in {0, StatusInternalServerError}

\* after an accepted upload, a non-member's upload of a disallowed extension
\* and one without a file part are answered 403, and an upload without
\* conversation id is answered 400 although the membership lookup would fail
C31_Witness ==
    /\ videos # << >>
    /\ \E r \in Requests :
         /\ NonMember(r) /\ r.hasFile /\ r.filename \notin AllowedNames
         /\ UploadResult(r, "none").code = StatusForbidden
    /\ \E r \in Requests :
         /\ NonMember(r) /\ ~r.hasFile
         /\ UploadResult(r, "none").code = StatusForbidden
    /\ \E r \in Requests :
         /\ ValidSession(r) /\ r.parseOK /\ r.conversationID = ""
         /\ UploadResult(r, "IsMember").code = StatusBadRequest

====
